---- MODULE Spec2Model ----
(***************************************************************************)
(* Model of the socha client core: the Element tree builder and            *)
(* serializer (src/src/util/xml.rs), the payload codec                     *)
(* (src/src/protocol, src/src/game) and the client session SCClient::run   *)
(* (src/src/client.rs).                                                    *)
(*                                                                         *)
(* Strings are sequences of text atoms, so that concatenation and          *)
(* escaping are computed.  Option<T> is a sequence of length at most one.  *)
(* An attribute map is a set of <<key, value>> pairs with unique keys.     *)
(***************************************************************************)
EXTENDS Integers, Sequences, FiniteSets, TLC

VARIABLES
    pc,            \* position of SCClient::run (or of the reader harness)
    pending,       \* tokens of the chunk on the wire not yet returned by read_event
    npre,          \* number of chunks the peer has sent before its <protocol>
    nmsgs,         \* number of chunks the peer has sent after its <protocol>
    tok,           \* the outcome of the most recent read_event call
    node_stack,    \* Element::read_from: node_stack
    event_xml,     \* run: Option of the Element the last read_from call returned
    state,         \* run: let mut state: Option<State>
    game_result,   \* run: let mut game_result: Option<GameResult>
    client_team,   \* SCClient.client_team: Option<Team>
    reservation_code, \* SCClient.reservation_code: Option<String>
    outbound,      \* tokens written to `writer`, in order
    calls,         \* delegate operations invoked, in order
    ret,           \* how the call of run has ended, if it has
    sent,          \* documents the peer has put on the wire, in order
    events,        \* Elements returned by read_from, in order
    dispatched,    \* outcomes of Event::try_from, in order
    xml_in,        \* reader harness: the Element that was serialized
    xml_out        \* reader harness: Option of the Element read back

vars == <<pc, pending, npre, nmsgs, tok, node_stack, event_xml, state,
          game_result, client_team, reservation_code, outbound, calls, ret,
          sent, events, dispatched, xml_in, xml_out>>

sessionVars == <<event_xml, state, game_result, client_team, reservation_code,
                 outbound, calls, ret, sent, events, dispatched>>

-----------------------------------------------------------------------------
(* Bounds of the model. *)

\* chunks (documents or stray tokens) the peer sends after its <protocol>
\* before the stream ends
MaxMsgs == 3

\* chunks the peer sends before its <protocol>
MaxPre == 2

\* children of an Element handed to the serializer in the reader harness
MaxChilds == 2

\* text tokens the peer sends in a row
MaxTexts == 2

\* stray tokens the peer sends before a document
MaxStray == 1

-----------------------------------------------------------------------------
(* Option and Result values. *)

None == <<>>

Some(v) == <<v>>

Ok(v) == [tag |-> "Ok", v |-> v]

Err(kind, detail) == [tag |-> "Err", v |-> [kind |-> kind, detail |-> detail]]

IsOk(r) == r.tag = "Ok"

\* sequences over S of length lo..hi
SeqsBetween(S, lo, hi) == UNION {[1..n -> S] : n \in lo..hi}

RECURSIVE Flatten(_)
Flatten(ss) == IF ss = <<>> THEN <<>> ELSE Head(ss) \o Flatten(Tail(ss))

-----------------------------------------------------------------------------
(* Tokens: the outcomes of quick_xml's Reader::read_event, and the events   *)
(* handed to Writer::write_event.                                           *)

Token(kind, name, attrs, text) ==
    [kind |-> kind, name |-> name, attrs |-> attrs, text |-> text]

StartTok(name, attrs) == Token("Start", name, attrs, <<>>)

EmptyTok(name, attrs) == Token("Empty", name, attrs, <<>>)

EndTok(name) == Token("End", name, {}, <<>>)

TextTok(text) == Token("Text", "", {}, text)

EofTok == Token("Eof", "", {}, <<>>)

\* Err(e) returned by read_event (I/O failure, malformed markup)
ErrTok == Token("Err", "", {}, <<>>)

NoTok == Token("None", "", {}, <<>>)

-----------------------------------------------------------------------------
(* Element (xml.rs). *)

Element(name, content, attributes, childs) ==
    [name |-> name, content |-> content, attributes |-> attributes, childs |-> childs]

\* impl TryFrom<&BytesStart> for Element
ElementFromStart(start) == Element(start.name, <<>>, start.attrs, <<>>)

\* Element::attribute
HasAttribute(elem, key) == \E p \in elem.attributes : p[1] = key

Attribute(elem, key) ==
    IF HasAttribute(elem, key)
    THEN Ok((CHOOSE p \in elem.attributes : p[1] = key)[2])
    ELSE Err("Custom", "No attribute")

\* Element::childs_by_name
ChildsByName(elem, name) == SelectSeq(elem.childs, LAMBDA c : c.name = name)

\* Element::child_by_name
ChildByName(elem, name) ==
    IF ChildsByName(elem, name) # <<>>
    THEN Ok(Head(ChildsByName(elem, name)))
    ELSE Err("Custom", "No child")

\* BytesText::from_plain escapes the reserved characters of the text
Escape(content) ==
    [i \in 1..Len(content) |-> IF content[i] = "&" THEN "&amp;" ELSE content[i]]

\* mutant: every element is written as an open and a close tag
RECURSIVE write_toOpenClose(_)
write_toOpenClose(elem) ==
    <<StartTok(elem.name, elem.attributes)>>
    \o (IF elem.content # <<>> THEN <<TextTok(Escape(elem.content))>> ELSE <<>>)
    \o Flatten([i \in 1..Len(elem.childs) |-> write_toOpenClose(elem.childs[i])])
    \o <<EndTok(elem.name)>>

\* Element::write_to: the events written, in order
RECURSIVE write_to(_)
write_to(elem) ==
    IF elem.childs = <<>>
    THEN <<EmptyTok(elem.name, elem.attributes)>>
    ELSE <<StartTok(elem.name, elem.attributes)>>
         \o (IF elem.content # <<>> THEN <<TextTok(Escape(elem.content))>> ELSE <<>>)
         \o Flatten([i \in 1..Len(elem.childs) |-> write_to(elem.childs[i])])
         \o <<EndTok(elem.name)>>

\* mutant: a text token replaces the content of the open element
BuilderTextOverwrites(stack, t) ==
    CASE t.kind = "Start" ->
            [stack |-> Append(stack, ElementFromStart(t)), result |-> None]
      [] t.kind = "End" ->
            IF stack = <<>>
            THEN [stack |-> stack, result |-> None]
            ELSE LET node == stack[Len(stack)]
                     rest == SubSeq(stack, 1, Len(stack) - 1)
                 IN  IF rest = <<>>
                     THEN [stack |-> rest, result |-> Some(Ok(node))]
                     ELSE LET parent == rest[Len(rest)]
                              grown  == [parent EXCEPT !.childs = Append(@, node)]
                          IN  [stack |-> [rest EXCEPT ![Len(rest)] = grown],
                               result |-> None]
      [] t.kind = "Text" ->
            IF stack = <<>>
            THEN [stack |-> stack, result |-> None]
            ELSE [stack |-> [stack EXCEPT ![Len(stack)].content = t.text],
                  result |-> None]
      [] t.kind = "Err" ->
            [stack |-> stack, result |-> Some(Err("Xml", "read_event"))]
      [] OTHER ->
            [stack |-> stack, result |-> None]

\* mutant: a close token without an open element is an error
BuilderStrayEndFails(stack, t) ==
    CASE t.kind = "Start" ->
            [stack |-> Append(stack, ElementFromStart(t)), result |-> None]
      [] t.kind = "End" ->
            IF stack = <<>>
            THEN [stack |-> stack, result |-> Some(Err("Custom", "No opening element"))]
            ELSE LET node == stack[Len(stack)]
                     rest == SubSeq(stack, 1, Len(stack) - 1)
                 IN  IF rest = <<>>
                     THEN [stack |-> rest, result |-> Some(Ok(node))]
                     ELSE LET parent == rest[Len(rest)]
                              grown  == [parent EXCEPT !.childs = Append(@, node)]
                          IN  [stack |-> [rest EXCEPT ![Len(rest)] = grown],
                               result |-> None]
      [] t.kind = "Text" ->
            IF stack = <<>>
            THEN [stack |-> stack, result |-> None]
            ELSE [stack |-> [stack EXCEPT ![Len(stack)].content = @ \o t.text],
                  result |-> None]
      [] t.kind = "Err" ->
            [stack |-> stack, result |-> Some(Err("Xml", "read_event"))]
      [] OTHER ->
            [stack |-> stack, result |-> None]

\* One iteration of the loop of Element::read_from on the outcome t of
\* read_event: the new node_stack and, when the iteration returns, the result.
Builder(stack, t) ==
    CASE t.kind = "Start" ->
            [stack |-> Append(stack, ElementFromStart(t)), result |-> None]
      [] t.kind = "End" ->
            IF stack = <<>>
            THEN [stack |-> stack, result |-> None]
            ELSE LET node == stack[Len(stack)]
                     rest == SubSeq(stack, 1, Len(stack) - 1)
                 IN  IF rest = <<>>
                     THEN [stack |-> rest, result |-> Some(Ok(node))]
                     ELSE LET parent == rest[Len(rest)]
                              grown  == [parent EXCEPT !.childs = Append(@, node)]
                          IN  [stack |-> [rest EXCEPT ![Len(rest)] = grown],
                               result |-> None]
      [] t.kind = "Text" ->
            IF stack = <<>>
            THEN [stack |-> stack, result |-> None]
            ELSE [stack |-> [stack EXCEPT ![Len(stack)].content = @ \o t.text],
                  result |-> None]
      [] t.kind = "Err" ->
            [stack |-> stack, result |-> Some(Err("Xml", "read_event"))]
      [] OTHER ->
            [stack |-> stack, result |-> None]

-----------------------------------------------------------------------------
(* Conversions of attribute and text values. *)

\* collect::<SCResult<_>>(): the values, or the first error
RECURSIVE Collect(_)
Collect(rs) ==
    IF rs = <<>> THEN Ok(<<>>)
    ELSE IF ~IsOk(Head(rs)) THEN Head(rs)
    ELSE LET rest == Collect(Tail(rs))
         IN  IF IsOk(rest) THEN Ok(<<Head(rs).v>> \o rest.v) ELSE rest

\* collecting (key, value) pairs into a HashMap: a later pair replaces an
\* earlier one with the same key
RECURSIVE IntoMap(_)
IntoMap(pairs) ==
    IF pairs = <<>> THEN {}
    ELSE LET last == pairs[Len(pairs)]
             init == IntoMap(SubSeq(pairs, 1, Len(pairs) - 1))
         IN  {p \in init : p[1] # last[1]} \cup {last}

\* str::parse::<usize>
ParseUsize(s) ==
    CASE s = "0" -> Ok(0)
      [] s = "1" -> Ok(1)
      [] s = "2" -> Ok(2)
      [] s = "23" -> Ok(23)
      [] OTHER -> Err("Parse", "usize")

\* usize as Display
FormatUsize(n) ==
    CASE n = 0 -> "0"
      [] n = 1 -> "1"
      [] n = 2 -> "2"
      [] n = 23 -> "23"

\* Team::from_str
ParseTeam(s) ==
    IF s \in {"ONE", "TWO"} THEN Ok(s) ELSE Err("Parse", "team")

\* a text content as one string: only single-atom contents are values
ContentStr(elem) == IF Len(elem.content) = 1 THEN elem.content[1] ELSE ""

Opponent(team) == IF team = "ONE" THEN "TWO" ELSE "ONE"

\* Result<T>::ok()
OkOpt(r) == IF IsOk(r) THEN Some(r.v) ELSE None

-----------------------------------------------------------------------------
(* Payload codec.  Each conversion returns its value or the first error,  *)
(* in the order in which the code evaluates its ? operators.               *)

\* elem.attribute(key)?.parse::<usize>()
UsizeAttribute(elem, key) ==
    LET a == Attribute(elem, key) IN IF IsOk(a) THEN ParseUsize(a.v) ELSE a

\* elem.attribute(key)?.parse::<Team>()
TeamAttribute(elem, key) ==
    LET a == Attribute(elem, key) IN IF IsOk(a) THEN ParseTeam(a.v) ELSE a

\* impl TryFrom<&Element> for Coords
CoordsFrom(elem) ==
    LET x == UsizeAttribute(elem, "x")
        y == UsizeAttribute(elem, "y")
    IN  IF ~IsOk(x) THEN x
        ELSE IF ~IsOk(y) THEN y
        ELSE Ok([x |-> x.v, y |-> y.v])

\* elem.child_by_name(name)?.try_into()? for Coords
ChildCoords(elem, name) ==
    LET c == ChildByName(elem, name) IN IF IsOk(c) THEN CoordsFrom(c.v) ELSE c

\* impl TryFrom<&Element> for Move
MoveFrom(elem) ==
    LET f == ChildCoords(elem, "from")
        t == ChildCoords(elem, "to")
    IN  IF ~IsOk(f) THEN f
        ELSE IF ~IsOk(t) THEN t
        ELSE Ok([from |-> f.v, to |-> t.v])

\* impl TryFrom<&Element> for Board: the layout is opaque to the core
BoardFrom(elem) == Ok("board")

\* impl TryFrom<&Element> for Player
PlayerFrom(elem) ==
    LET team == TeamAttribute(elem, "team")
    IN  IF ~IsOk(team) THEN team
        ELSE Ok([name |-> OkOpt(Attribute(elem, "name")), team |-> team.v])

\* ScoreCause::from_str
ParseCause(s) ==
    IF s \in {"REGULAR", "LEFT"} THEN Ok(s) ELSE Err("Parse", "cause")

\* impl TryFrom<&Element> for Score
ScoreFrom(elem) ==
    LET a == Attribute(elem, "cause")
        cause == IF IsOk(a) THEN ParseCause(a.v) ELSE a
    IN  IF ~IsOk(cause) THEN cause ELSE Ok([cause |-> cause.v])

\* impl TryFrom<&Element> for ScoreDefinitionFragment
FragmentFrom(elem) ==
    LET name == Attribute(elem, "name")
    IN  IF ~IsOk(name) THEN name ELSE Ok([name |-> name.v])

\* impl TryFrom<&Element> for ScoreDefinition
ScoreDefinitionFrom(elem) ==
    LET frs == ChildsByName(elem, "fragment")
    IN  Collect([i \in 1..Len(frs) |-> FragmentFrom(frs[i])])

\* Player::try_from(e.child_by_name("player")?)?
EntryPlayer(e) ==
    LET c == ChildByName(e, "player") IN IF IsOk(c) THEN PlayerFrom(c.v) ELSE c

\* Score::try_from(e.child_by_name("score")?)?
EntryScore(e) ==
    LET c == ChildByName(e, "score") IN IF IsOk(c) THEN ScoreFrom(c.v) ELSE c

\* the closure of GameResult::try_from over one <entry>
ScoreEntry(e) ==
    LET player == EntryPlayer(e)
        score  == EntryScore(e)
    IN  IF ~IsOk(player) THEN player
        ELSE IF ~IsOk(score) THEN score
        ELSE Ok(<<player.v, score.v>>)

\* elem.child_by_name("definition")?.try_into()?
ResultDefinition(elem) ==
    LET c == ChildByName(elem, "definition")
    IN  IF IsOk(c) THEN ScoreDefinitionFrom(c.v) ELSE c

\* .childs_by_name("entry").map(..).collect::<SCResult<_>>()?
ScoreEntries(scores) ==
    LET es == ChildsByName(scores, "entry")
    IN  Collect([i \in 1..Len(es) |-> ScoreEntry(es[i])])

\* elem.child_by_name("scores")? and its entries
ResultScores(elem) ==
    LET c == ChildByName(elem, "scores") IN IF IsOk(c) THEN ScoreEntries(c.v) ELSE c

\* elem.child_by_name("winner").ok().and_then(|w| w.try_into().ok())
ResultWinner(elem) ==
    LET c == ChildByName(elem, "winner") IN IF IsOk(c) THEN OkOpt(PlayerFrom(c.v)) ELSE None

\* impl TryFrom<&Element> for GameResult
GameResultFrom(elem) ==
    LET definition == ResultDefinition(elem)
        scores     == ResultScores(elem)
    IN  IF ~IsOk(definition) THEN definition
        ELSE IF ~IsOk(scores) THEN scores
        ELSE Ok([definition |-> definition.v,
                 scores |-> IntoMap(scores.v),
                 winner |-> ResultWinner(elem)])

\* Team::from_str(e.child_by_name("team")?.content())?
AmberTeam(e) ==
    LET c == ChildByName(e, "team") IN IF IsOk(c) THEN ParseTeam(ContentStr(c.v)) ELSE c

\* usize::from_str(e.child_by_name("int")?.content())?
AmberCount(e) ==
    LET c == ChildByName(e, "int") IN IF IsOk(c) THEN ParseUsize(ContentStr(c.v)) ELSE c

\* the closure of State::try_from over one <entry> of <ambers>
AmberEntry(e) ==
    LET team  == AmberTeam(e)
        piece == AmberCount(e)
    IN  IF ~IsOk(team) THEN team
        ELSE IF ~IsOk(piece) THEN piece
        ELSE Ok(<<team.v, piece.v>>)

\* elem.child_by_name("board")?.try_into()?
StateBoard(elem) ==
    LET c == ChildByName(elem, "board") IN IF IsOk(c) THEN BoardFrom(c.v) ELSE c

\* .childs_by_name("entry").map(..).collect::<SCResult<_>>()?
AmberEntries(ambers) ==
    LET es == ChildsByName(ambers, "entry")
    IN  Collect([i \in 1..Len(es) |-> AmberEntry(es[i])])

\* elem.child_by_name("ambers")? and its entries
StateAmbers(elem) ==
    LET c == ChildByName(elem, "ambers") IN IF IsOk(c) THEN AmberEntries(c.v) ELSE c

\* elem.child_by_name("lastMove").ok().and_then(|m| m.try_into().ok())
StateLastMove(elem) ==
    LET c == ChildByName(elem, "lastMove") IN IF IsOk(c) THEN OkOpt(MoveFrom(c.v)) ELSE None

\* elem.child_by_name("startTeam").ok().and_then(|t| t.content().parse().ok())
StateStartTeam(elem) ==
    LET c == ChildByName(elem, "startTeam")
    IN  IF IsOk(c) THEN OkOpt(ParseTeam(ContentStr(c.v))) ELSE None

\* impl TryFrom<&Element> for State
StateFrom(elem) ==
    LET board  == StateBoard(elem)
        ambers == StateAmbers(elem)
        turn   == UsizeAttribute(elem, "turn")
    IN  IF ~IsOk(board) THEN board
        ELSE IF ~IsOk(ambers) THEN ambers
        ELSE IF ~IsOk(turn) THEN turn
        ELSE Ok([board |-> board.v,
                 ambers |-> IntoMap(ambers.v),
                 turn |-> turn.v,
                 last_move |-> StateLastMove(elem),
                 start_team |-> StateStartTeam(elem)])

\* State::current_team: the team to move, derived from the starting team
\* and the turn
current_team(s) ==
    IF s.start_team = None THEN None
    ELSE Some(IF s.turn % 2 = 0 THEN s.start_team[1] ELSE Opponent(s.start_team[1]))

Payload(kind, v) == [kind |-> kind, v |-> v]

\* Ok(Self::<variant>(r?)): the payload variant around a converted value
PayloadOf(kind, r) == IF IsOk(r) THEN Ok(Payload(kind, r.v)) ELSE r

\* elem.child_by_name("state")?.try_into()
MementoState(elem) ==
    LET c == ChildByName(elem, "state") IN IF IsOk(c) THEN StateFrom(c.v) ELSE c

\* Err(SCError::ServerError(elem.attribute("message")?.to_owned()))
ServerErrorFrom(elem) ==
    LET message == Attribute(elem, "message")
    IN  IF IsOk(message) THEN Err("ServerError", message.v) ELSE message

\* mutant: the class error is not told apart from an unknown class
PayloadOfClassErrorUnknown(elem, class) ==
    CASE class = "welcomeMessage" -> PayloadOf("Welcome", TeamAttribute(elem, "color"))
      [] class = "memento" -> PayloadOf("Memento", MementoState(elem))
      [] class = "moveRequest" -> Ok(Payload("MoveRequest", <<>>))
      [] class = "result" -> PayloadOf("GameResult", GameResultFrom(elem))
      [] OTHER -> Err("UnknownElement", elem)

\* the match of EventPayload::try_from on the class
PayloadOfClass(elem, class) ==
    CASE class = "welcomeMessage" -> PayloadOf("Welcome", TeamAttribute(elem, "color"))
      [] class = "memento" -> PayloadOf("Memento", MementoState(elem))
      [] class = "moveRequest" -> Ok(Payload("MoveRequest", <<>>))
      [] class = "result" -> PayloadOf("GameResult", GameResultFrom(elem))
      [] class = "error" -> ServerErrorFrom(elem)
      [] OTHER -> Err("UnknownElement", elem)

\* impl TryFrom<&Element> for EventPayload
EventPayloadFrom(elem) ==
    LET class == Attribute(elem, "class")
    IN  IF IsOk(class) THEN PayloadOfClass(elem, class.v) ELSE class

Event(kind, room_id, payload) == [kind |-> kind, room_id |-> room_id, payload |-> payload]

\* Ok(Event::<variant> { room_id: r? , payload })
EventOf(kind, r, payload) == IF IsOk(r) THEN Ok(Event(kind, r.v, payload)) ELSE r

\* elem.child_by_name("data")?.try_into()
RoomPayload(elem) ==
    LET c == ChildByName(elem, "data") IN IF IsOk(c) THEN EventPayloadFrom(c.v) ELSE c

\* Ok(Event::Room { room_id, payload: r? })
RoomEventOf(room_id, r) == IF IsOk(r) THEN Ok(Event("Room", room_id, r.v)) ELSE r

\* the Room arm of Event::try_from
RoomEventFrom(elem) ==
    LET room_id == Attribute(elem, "roomId")
    IN  IF IsOk(room_id) THEN RoomEventOf(room_id.v, RoomPayload(elem)) ELSE room_id

\* impl TryFrom<&Element> for Event
EventFrom(elem) ==
    CASE elem.name = "joined" ->
            EventOf("Joined", Attribute(elem, "roomId"), Payload("None", <<>>))
      [] elem.name = "left" ->
            EventOf("Left", Attribute(elem, "roomId"), Payload("None", <<>>))
      [] elem.name = "room" -> RoomEventFrom(elem)
      [] OTHER -> Err("UnknownElement", elem)

\* impl From<Request> for Element
RequestElement(request) ==
    CASE request.kind = "Join" -> Element("join", <<>>, {}, <<>>)
      [] request.kind = "JoinPrepared" ->
            Element("joinPrepared", <<>>,
                    {<<"reservationCode", request.reservation_code>>}, <<>>)
      [] request.kind = "Room" ->
            Element("room", <<>>, {<<"roomId", request.room_id>>},
              <<Element("data", <<>>, {<<"class", "move">>},
                 <<Element("from", <<>>,
                     {<<"x", FormatUsize(request.move.from.x)>>,
                      <<"y", FormatUsize(request.move.from.y)>>}, <<>>),
                   Element("to", <<>>,
                     {<<"x", FormatUsize(request.move.to.x)>>,
                      <<"y", FormatUsize(request.move.to.y)>>}, <<>>)>>)>>)

-----------------------------------------------------------------------------
(* The peer: the documents it sends and their tokens on the wire. *)

\* the tokens of a document; with selfclosing, an element without content
\* and children is sent as one self-closing tag
RECURSIVE Wire(_, _)
Wire(elem, selfclosing) ==
    IF selfclosing /\ elem.childs = <<>> /\ elem.content = <<>>
    THEN <<EmptyTok(elem.name, elem.attributes)>>
    ELSE <<StartTok(elem.name, elem.attributes)>>
         \o (IF elem.content # <<>> THEN <<TextTok(elem.content)>> ELSE <<>>)
         \o Flatten([i \in 1..Len(elem.childs) |-> Wire(elem.childs[i], selfclosing)])
         \o <<EndTok(elem.name)>>

JoinedDoc(r) == Element("joined", <<>>, {<<"roomId", r>>}, <<>>)

LeftDoc(r) == Element("left", <<>>, {<<"roomId", r>>}, <<>>)

RoomDoc(r, data) == Element("room", <<>>, {<<"roomId", r>>}, <<data>>)

WelcomeData(team) ==
    Element("data", <<>>, {<<"class", "welcomeMessage">>, <<"color", team>>}, <<>>)

StateElem(turn, start) ==
    Element("state", <<>>, {<<"turn", turn>>},
            <<Element("board", <<>>, {}, <<>>), Element("ambers", <<>>, {}, <<>>)>>
            \o (IF start = None THEN <<>>
                ELSE <<Element("startTeam", <<start[1]>>, {}, <<>>)>>))

MementoData(turn, start) ==
    Element("data", <<>>, {<<"class", "memento">>}, <<StateElem(turn, start)>>)

MoveRequestData == Element("data", <<>>, {<<"class", "moveRequest">>}, <<>>)

ResultData(winner) ==
    Element("data", <<>>, {<<"class", "result">>},
            <<Element("definition", <<>>, {}, <<>>), Element("scores", <<>>, {}, <<>>)>>
            \o (IF winner = None THEN <<>>
                ELSE <<Element("winner", <<>>, {<<"team", winner[1]>>}, <<>>)>>))

ErrorData == Element("data", <<>>, {<<"class", "error">>, <<"message", "oops">>}, <<>>)

UnknownData == Element("data", <<>>, {<<"class", "bogus">>}, <<>>)

NoClassData == Element("data", <<>>, {}, <<>>)

GoodDocs ==
    {JoinedDoc("r1"), LeftDoc("r1")}
    \cup {RoomDoc("r1", WelcomeData(t)) : t \in {"ONE", "TWO"}}
    \cup {RoomDoc("r1", MementoData("0", Some("ONE"))),
          RoomDoc("r1", MementoData("1", None))}
    \cup {RoomDoc("r2", MoveRequestData)}
    \cup {RoomDoc("r1", ResultData(w)) : w \in {None, Some("ONE")}}

BadDocs ==
    {RoomDoc("r1", ErrorData), RoomDoc("r1", UnknownData),
     RoomDoc("r1", NoClassData), Element("foo", <<"x">>, {}, <<>>)}

\* documents that the peer also sends with self-closing tags
SelfClosingDocs == {LeftDoc("r1"), RoomDoc("r2", MoveRequestData)}

Chunk(doc, toks) == [doc |-> doc, toks |-> toks]

DocChunks ==
    {Chunk(Some(d), Wire(d, FALSE)) : d \in GoodDocs \cup BadDocs}
    \cup {Chunk(Some(d), Wire(d, TRUE)) : d \in SelfClosingDocs}

\* tokens between documents: white space, the peer's </protocol>, a failing
\* read, the end of the stream
StrayChunks ==
    {Chunk(None, <<t>>) : t \in {TextTok(<<" ">>), EndTok("protocol"), ErrTok, EofTok}}

\* a document cut short: the peer closes the stream inside an open element
TruncatedChunks ==
    {Chunk(None, <<StartTok("room", {<<"roomId", "r1">>}), EofTok>>)}

\* what the peer may send before it opens its envelope
PreChunks ==
    {Chunk(None, <<t>>) : t \in {TextTok(<<" ">>), StartTok("joined", {<<"roomId", "r1">>}),
                                 ErrTok, EofTok, StartTok("protocol", {})}}

\* read_event at the end of the stream returns Eof, again and again
EofChunk == Chunk(None, <<EofTok>>)

\* the chunks one call of read_event may take its token from: the rest of
\* the chunk on the wire, or a new chunk
Feed(chunks, n, max) ==
    IF pending # <<>> THEN {[c |-> Chunk(None, pending), new |-> FALSE]}
    ELSE IF n < max THEN {[c |-> ch, new |-> TRUE] : ch \in chunks}
    ELSE {[c |-> EofChunk, new |-> FALSE]}

\* the effect of one read_event call on the wire
Take(f) ==
    /\ tok' = Head(f.c.toks)
    /\ pending' = IF Head(f.c.toks).kind = "Eof" THEN f.c.toks ELSE Tail(f.c.toks)
    /\ sent' = IF f.c.doc # None THEN Append(sent, f.c.doc[1]) ELSE sent

Moves ==
    {[from |-> [x |-> 0, y |-> 0], to |-> [x |-> 1, y |-> 2]],
     [from |-> [x |-> 2, y |-> 1], to |-> [x |-> 23, y |-> 0]]}

-----------------------------------------------------------------------------
(* SCClient::run. *)

Running == [tag |-> "Running", v |-> <<>>]

Panic(detail) == [tag |-> "Panic", v |-> detail]

Call(op, args) == [op |-> op, args |-> args]

DummyElement == Element("", <<>>, {}, <<>>)

Init ==
    /\ pc = "connect"
    /\ pending = <<>>
    /\ npre = 0
    /\ nmsgs = 0
    /\ tok = NoTok
    /\ node_stack = <<>>
    /\ event_xml = None
    /\ state = None
    /\ game_result = None
    /\ client_team = None
    /\ reservation_code \in {None, Some("code")}
    /\ outbound = <<>>
    /\ calls = <<>>
    /\ ret = Running
    /\ sent = <<>>
    /\ events = <<>>
    /\ dispatched = <<>>
    /\ xml_in = DummyElement
    /\ xml_out = None

\* mutant: the reservation code is not used
JoinRequestAlwaysJoin == [kind |-> "Join"]

\* the join request of run
JoinRequest ==
    IF reservation_code # None
    THEN [kind |-> "JoinPrepared", reservation_code |-> reservation_code[1]]
    ELSE [kind |-> "Join"]

\* run: write <protocol> and the join request
Connect ==
    /\ pc = "connect"
    /\ outbound' = <<StartTok("protocol", {})>> \o write_to(RequestElement(JoinRequest))
    /\ pc' = "handshake"
    /\ UNCHANGED <<pending, npre, nmsgs, tok, node_stack, event_xml, state,
                   game_result, client_team, reservation_code, calls, ret, sent,
                   events, dispatched, xml_in, xml_out>>

\* mutant: the handshake ends on any element-open token
HandshakeStepAnyStart(t) ==
    CASE t.kind = "Err" -> [pc |-> "done", ret |-> Err("Xml", "read_event")]
      [] t.kind = "Start" -> [pc |-> "read", ret |-> Running]
      [] t.kind = "Text" -> [pc |-> "handshake", ret |-> Running]
      [] t.kind = "Eof" -> [pc |-> "done", ret |-> Err("Eof", "")]
      [] OTHER -> [pc |-> "handshake", ret |-> Running]

\* mutant: the end of the stream is passed over like any other token
HandshakeStepEofIgnored(t) ==
    CASE t.kind = "Err" -> [pc |-> "done", ret |-> Err("Xml", "read_event")]
      [] t.kind = "Start" /\ t.name = "protocol" -> [pc |-> "read", ret |-> Running]
      [] t.kind = "Text" -> [pc |-> "handshake", ret |-> Running]
      [] OTHER -> [pc |-> "handshake", ret |-> Running]

\* one iteration of the handshake loop on token t: the next position and result
HandshakeStep(t) ==
    CASE t.kind = "Err" -> [pc |-> "done", ret |-> Err("Xml", "read_event")]
      [] t.kind = "Start" /\ t.name = "protocol" -> [pc |-> "read", ret |-> Running]
      [] t.kind = "Text" -> [pc |-> "handshake", ret |-> Running]
      [] t.kind = "Eof" -> [pc |-> "done", ret |-> Err("Eof", "")]
      [] OTHER -> [pc |-> "handshake", ret |-> Running]

\* run: the loop that reads the peer's <protocol>
Handshake ==
    /\ pc = "handshake"
    /\ \E f \in Feed(PreChunks, npre, MaxPre) :
         /\ Take(f)
         /\ npre' = IF f.new THEN npre + 1 ELSE npre
         /\ pc' = HandshakeStep(Head(f.c.toks)).pc
         /\ ret' = HandshakeStep(Head(f.c.toks)).ret
    /\ UNCHANGED <<nmsgs, node_stack, event_xml, state, game_result, client_team,
                   reservation_code, outbound, calls, events, dispatched,
                   xml_in, xml_out>>

\* run: one iteration of the loop of Element::read_from(&mut reader)?
ReadFrom ==
    /\ pc = "read"
    /\ \E f \in Feed(DocChunks \cup StrayChunks \cup TruncatedChunks, nmsgs, MaxMsgs) :
         LET b == Builder(node_stack, Head(f.c.toks))
         IN  /\ Take(f)
             /\ nmsgs' = IF f.new THEN nmsgs + 1 ELSE nmsgs
             /\ IF b.result = None
                THEN /\ node_stack' = b.stack
                     /\ UNCHANGED <<pc, event_xml, events, ret>>
                ELSE IF IsOk(b.result[1])
                THEN /\ node_stack' = <<>>
                     /\ event_xml' = Some(b.result[1].v)
                     /\ events' = Append(events, b.result[1].v)
                     /\ pc' = "dispatch"
                     /\ UNCHANGED ret
                ELSE /\ node_stack' = <<>>
                     /\ ret' = b.result[1]
                     /\ pc' = "done"
                     /\ UNCHANGED <<event_xml, events>>
    /\ UNCHANGED <<npre, state, game_result, client_team, reservation_code,
                   outbound, calls, dispatched, xml_in, xml_out>>

\* Event::try_from(&event_xml)
Decoded == EventFrom(event_xml[1])

wireVars == <<pending, npre, nmsgs, tok, node_stack, sent, events, xml_in, xml_out>>

\* what every arm of the match does to the bookkeeping
Arm(kind) ==
    /\ pc = "dispatch"
    /\ IsOk(Decoded)
    /\ Decoded.v.kind = kind
    /\ dispatched' = Append(dispatched, Decoded)
    /\ UNCHANGED <<wireVars, event_xml, reservation_code>>

RoomArm(kind) ==
    /\ Arm("Room")
    /\ Decoded.v.payload.kind = kind

\* Ok(Event::Joined { room_id })
OnJoined ==
    /\ Arm("Joined")
    /\ pc' = "read"
    /\ UNCHANGED <<state, game_result, client_team, outbound, calls, ret>>

\* mutant: the envelope is closed before the close notice
CloseTokensSwapped == <<EndTok("protocol"), EmptyTok("sc.protocol.CloseConnection", {})>>

\* the two events written on Left
CloseTokens == <<EmptyTok("sc.protocol.CloseConnection", {}), EndTok("protocol")>>

\* mutant: the loop is not left after the close notice
OnLeftKeepsReading ==
    /\ Arm("Left")
    /\ outbound' = outbound \o CloseTokens
    /\ pc' = "read"
    /\ UNCHANGED <<state, game_result, client_team, calls, ret>>

\* Ok(Event::Left { room_id })
OnLeft ==
    /\ Arm("Left")
    /\ outbound' = outbound \o CloseTokens
    /\ pc' = "sleep"
    /\ UNCHANGED <<state, game_result, client_team, calls, ret>>

\* EventPayload::Welcome(team)
OnWelcome ==
    /\ RoomArm("Welcome")
    /\ calls' = Append(calls, Call("on_welcome", <<Decoded.v.payload.v>>))
    /\ client_team' = Some(Decoded.v.payload.v)
    /\ pc' = "read"
    /\ UNCHANGED <<state, game_result, outbound, ret>>

\* EventPayload::GameResult(result)
OnGameResult ==
    /\ RoomArm("GameResult")
    /\ IF client_team = None
       THEN /\ ret' = Panic("unwrap on None")
            /\ pc' = "done"
            /\ UNCHANGED <<calls, game_result>>
       ELSE /\ calls' = Append(calls, Call("on_game_end",
                                           <<Decoded.v.payload.v, client_team[1]>>))
            /\ game_result' = Some(Decoded.v.payload.v)
            /\ pc' = "read"
            /\ UNCHANGED ret
    /\ UNCHANGED <<state, client_team, outbound>>

\* EventPayload::Memento(new_state)
OnMemento ==
    /\ RoomArm("Memento")
    /\ calls' = Append(calls, Call("on_update_state", <<Decoded.v.payload.v>>))
    /\ state' = Some(Decoded.v.payload.v)
    /\ pc' = "read"
    /\ UNCHANGED <<game_result, client_team, outbound, ret>>

\* the Room request that answers a move request
MoveReply(room_id, new_move) ==
    write_to(RequestElement([kind |-> "Room", room_id |-> room_id, move |-> new_move]))

\* mutant: a move request without a usable state is passed over
OnMoveRequestSkipped ==
    /\ RoomArm("MoveRequest")
    /\ IF state = None \/ current_team(state[1]) = None
       THEN /\ pc' = "read"
            /\ UNCHANGED <<calls, outbound, ret>>
       ELSE \E new_move \in Moves :
            /\ calls' = Append(calls, Call("request_move",
                                 <<state[1], current_team(state[1])[1], new_move>>))
            /\ outbound' = outbound \o MoveReply(Decoded.v.room_id, new_move)
            /\ pc' = "read"
            /\ UNCHANGED ret
    /\ UNCHANGED <<state, game_result, client_team>>

\* mutant: the reply always names the first room
OnMoveRequestFirstRoom ==
    /\ RoomArm("MoveRequest")
    /\ IF state = None
       THEN /\ ret' = Err("InvalidState", "No state available at move request!")
            /\ pc' = "done"
            /\ UNCHANGED <<calls, outbound>>
       ELSE IF current_team(state[1]) = None
       THEN /\ ret' = Err("InvalidState", "No team available at move request!")
            /\ pc' = "done"
            /\ UNCHANGED <<calls, outbound>>
       ELSE \E new_move \in Moves :
            /\ calls' = Append(calls, Call("request_move",
                                 <<state[1], current_team(state[1])[1], new_move>>))
            /\ outbound' = outbound \o MoveReply("r1", new_move)
            /\ pc' = "read"
            /\ UNCHANGED ret
    /\ UNCHANGED <<state, game_result, client_team>>

\* EventPayload::MoveRequest
OnMoveRequest ==
    /\ RoomArm("MoveRequest")
    /\ IF state = None
       THEN /\ ret' = Err("InvalidState", "No state available at move request!")
            /\ pc' = "done"
            /\ UNCHANGED <<calls, outbound>>
       ELSE IF current_team(state[1]) = None
       THEN /\ ret' = Err("InvalidState", "No team available at move request!")
            /\ pc' = "done"
            /\ UNCHANGED <<calls, outbound>>
       ELSE \E new_move \in Moves :
            /\ calls' = Append(calls, Call("request_move",
                                 <<state[1], current_team(state[1])[1], new_move>>))
            /\ outbound' = outbound \o MoveReply(Decoded.v.room_id, new_move)
            /\ pc' = "read"
            /\ UNCHANGED ret
    /\ UNCHANGED <<state, game_result, client_team>>

\* mutant: a decode failure is propagated with ?
OnDecodeErrorFatal ==
    /\ pc = "dispatch"
    /\ ~IsOk(Decoded)
    /\ dispatched' = Append(dispatched, Decoded)
    /\ pc' = "done"
    /\ ret' = Decoded
    /\ UNCHANGED <<wireVars, event_xml, reservation_code, state, game_result,
                   client_team, outbound, calls>>

\* Err(SCError::UnknownElement(element)), Err(SCError::ServerError(message)), Err(e)
OnDecodeError ==
    /\ pc = "dispatch"
    /\ ~IsOk(Decoded)
    /\ dispatched' = Append(dispatched, Decoded)
    /\ pc' = "read"
    /\ UNCHANGED <<wireVars, event_xml, reservation_code, state, game_result,
                   client_team, outbound, calls, ret>>

\* mutant: an empty result stands in for a missing one
FinalResultDefault ==
    IF game_result # None THEN Ok(game_result[1])
    ELSE Ok([definition |-> <<>>, scores |-> {}, winner |-> None])

\* the value run returns after the loop
FinalResult ==
    IF game_result # None THEN Ok(game_result[1])
    ELSE Err("InvalidState", "Failed to receive game_result")

\* run: sleep(Duration::from_secs(2)) and return
Finish ==
    /\ pc = "sleep"
    /\ ret' = FinalResult
    /\ pc' = "done"
    /\ UNCHANGED <<wireVars, event_xml, reservation_code, state, game_result,
                   client_team, outbound, calls, dispatched>>

\* Writer::new(BufWriter::new(write)): run never calls flush, so what it
\* writes stays in the BufWriter (far below its capacity here) until the
\* writer is dropped when run ends
Buffered == IF pc = "done" THEN <<>> ELSE outbound

\* the events handed to `write`, the transport
Transport == IF pc = "done" THEN outbound ELSE <<>>

Next ==
    \/ Connect
    \/ Handshake
    \/ ReadFrom
    \/ OnJoined
    \/ OnLeft
    \/ OnWelcome
    \/ OnGameResult
    \/ OnMemento
    \/ OnMoveRequest
    \/ OnDecodeError
    \/ Finish

Spec == Init /\ [][Next]_vars

\* run keeps executing: a step that can be taken is taken, the peer's next
\* token or the end of its stream included
FairSpec == Spec /\ WF_vars(Next)

TypeOK ==
    /\ pc \in {"connect", "handshake", "read", "dispatch", "sleep", "done"}
    /\ ret.tag \in {"Running", "Ok", "Err", "Panic"}
    /\ nmsgs \in 0..MaxMsgs
    /\ npre \in 0..MaxPre

-----------------------------------------------------------------------------
(* Reader harness: Element::read_from on the events Element::write_to emits. *)

XmlLeaves ==
    {Element(n, c, a, <<>>) :
        n \in {"a", "b"}, c \in {<<>>, <<"x">>, <<"&">>}, a \in {{}, {<<"k", "v">>}}}

XmlChilds ==
    {Element("b", <<>>, {}, <<>>), Element("b", <<"x">>, {}, <<>>),
     Element("a", <<>>, {<<"k", "v">>}, <<>>)}

XmlParents ==
    {Element(n, c, a, ch) :
        n \in {"a", "b"}, c \in {<<>>, <<"x">>, <<"&">>}, a \in {{}, {<<"k", "v">>}},
        ch \in SeqsBetween(XmlChilds, 1, MaxChilds)}

XmlGrandparents == {Element("a", <<>>, {}, <<p>>) : p \in XmlParents}

XmlElements == XmlLeaves \cup XmlParents \cup XmlGrandparents

InitXml ==
    /\ pc = "xml_read"
    /\ xml_in \in XmlElements
    /\ pending = write_to(xml_in)
    /\ xml_out = None
    /\ npre = 0
    /\ nmsgs = 0
    /\ tok = NoTok
    /\ node_stack = <<>>
    /\ event_xml = None
    /\ state = None
    /\ game_result = None
    /\ client_team = None
    /\ reservation_code = None
    /\ outbound = <<>>
    /\ calls = <<>>
    /\ ret = Running
    /\ sent = <<>>
    /\ events = <<>>
    /\ dispatched = <<>>

\* one iteration of the loop of Element::read_from(&mut reader) on the
\* serialization; read_event returns Eof once the events are used up
XmlRead ==
    /\ pc = "xml_read"
    /\ LET t == IF pending = <<>> THEN EofTok ELSE Head(pending)
           b == Builder(node_stack, t)
       IN  /\ tok' = t
           /\ pending' = IF pending = <<>> THEN pending ELSE Tail(pending)
           /\ node_stack' = IF b.result = None THEN b.stack ELSE <<>>
           /\ xml_out' = b.result
           /\ pc' = IF b.result = None THEN "xml_read" ELSE "xml_done"
    /\ UNCHANGED <<npre, nmsgs, sessionVars, xml_in>>

NextXml == XmlRead

SpecXml == InitXml /\ [][NextXml]_vars

-----------------------------------------------------------------------------
(* Reader harness: Element::read_from on a document whose text arrives in    *)
(* several tokens, after stray tokens outside of any element.                *)

\* the texts of a run of text tokens
TextRuns(atoms) == SeqsBetween({<<a>> : a \in atoms}, 0, MaxTexts)

TextToks(run) == [i \in 1..Len(run) |-> TextTok(run[i])]

\* close and text tokens outside of any element
StrayRuns == SeqsBetween({EndTok("z"), TextTok(<<"s">>)}, 0, MaxStray)

\* <a>t1<b>u</b>t2</a>, each text in the tokens of its run
TextStream(t1, u, t2) ==
    <<StartTok("a", {})>> \o TextToks(t1)
    \o <<StartTok("b", {})>> \o TextToks(u) \o <<EndTok("b")>>
    \o TextToks(t2) \o <<EndTok("a")>>

\* the document of that stream
TextElement(t1, u, t2) ==
    Element("a", Flatten(t1) \o Flatten(t2), {},
            <<Element("b", Flatten(u), {}, <<>>)>>)

InitText ==
    /\ pc = "xml_read"
    /\ \E s \in StrayRuns, t1 \in TextRuns({"x", "y"}), u \in TextRuns({"u"}),
          t2 \in TextRuns({"x", "y"}) :
         /\ pending = s \o TextStream(t1, u, t2)
         /\ xml_in = TextElement(t1, u, t2)
    /\ xml_out = None
    /\ npre = 0
    /\ nmsgs = 0
    /\ tok = NoTok
    /\ node_stack = <<>>
    /\ event_xml = None
    /\ state = None
    /\ game_result = None
    /\ client_team = None
    /\ reservation_code = None
    /\ outbound = <<>>
    /\ calls = <<>>
    /\ ret = Running
    /\ sent = <<>>
    /\ events = <<>>
    /\ dispatched = <<>>

NextText == XmlRead

SpecText == InitText /\ [][NextText]_vars

-----------------------------------------------------------------------------
(* Codec harness: EventPayload::try_from on <data> elements, well-formed    *)
(* and not.                                                                 *)

\* the attribute key with one of the values, or no such attribute
OptAttribute(key, values) == {{}} \cup {{<<key, v>>} : v \in values}

\* the attributes of a <data> element
PayloadAttributes ==
    {c \cup t \cup m :
        c \in OptAttribute("class", {"welcomeMessage", "memento", "moveRequest",
                                     "result", "error", "bogus"}),
        t \in OptAttribute("color", {"ONE", "RED"}),
        m \in OptAttribute("message", {"oops"})}

CoordsElement(name, x, y) == Element(name, <<>>, {<<"x", x>>, <<"y", y>>}, <<>>)

\* <lastMove> elements: absent, well-formed, with a coordinate that is not a
\* number, without its <to>
PayloadLastMoves ==
    {<<>>,
     <<Element("lastMove", <<>>, {},
               <<CoordsElement("from", "0", "0"), CoordsElement("to", "1", "2")>>)>>,
     <<Element("lastMove", <<>>, {},
               <<CoordsElement("from", "q", "0"), CoordsElement("to", "1", "2")>>)>>,
     <<Element("lastMove", <<>>, {}, <<CoordsElement("from", "0", "0")>>)>>}

\* <startTeam> elements: absent, a team, not a team
PayloadStartTeams ==
    {<<>>, <<Element("startTeam", <<"ONE">>, {}, <<>>)>>,
     <<Element("startTeam", <<"RED">>, {}, <<>>)>>}

\* <state> elements, with and without their required parts
PayloadStates ==
    {Element("state", <<>>, t,
             <<Element("board", <<>>, {}, <<>>), Element("ambers", <<>>, {}, <<>>)>>
             \o l \o st) :
        t \in OptAttribute("turn", {"1", "x"}), l \in PayloadLastMoves,
        st \in PayloadStartTeams}
    \cup {Element("state", <<>>, {<<"turn", "1">>},
                  <<Element("ambers", <<>>, {}, <<>>)>>),
          Element("state", <<>>, {<<"turn", "1">>},
                  <<Element("board", <<>>, {}, <<>>),
                    Element("ambers", <<>>, {},
                       <<Element("entry", <<>>, {},
                            <<Element("team", <<"ONE">>, {}, <<>>),
                              Element("int", <<"many">>, {}, <<>>)>>)>>)>>)}

\* <winner> elements: absent, a player, a team that is none, no team
PayloadWinners ==
    {<<>>} \cup {<<Element("winner", <<>>, a, <<>>)>> :
                    a \in {{<<"team", "ONE">>}, {<<"team", "RED">>}, {}}}

\* <entry> elements of <scores>: none, well-formed, a player without team
PayloadScores ==
    {<<>>,
     <<Element("entry", <<>>, {},
          <<Element("player", <<>>, {<<"team", "TWO">>}, <<>>),
            Element("score", <<>>, {<<"cause", "REGULAR">>}, <<>>)>>)>>,
     <<Element("entry", <<>>, {},
          <<Element("player", <<>>, {}, <<>>),
            Element("score", <<>>, {<<"cause", "REGULAR">>}, <<>>)>>)>>}

\* the children of a result, with and without the required ones
PayloadResults ==
    {<<Element("definition", <<>>, {}, <<>>), Element("scores", <<>>, {}, es)>> \o w :
        es \in PayloadScores, w \in PayloadWinners}
    \cup {<<Element("scores", <<>>, {}, <<>>)>>, <<Element("definition", <<>>, {}, <<>>)>>}

PayloadChilds == {<<>>} \cup {<<st>> : st \in PayloadStates} \cup PayloadResults

PayloadElements ==
    {Element("data", <<>>, a, ch) : a \in PayloadAttributes, ch \in PayloadChilds}

InitPayload ==
    /\ pc = "payload"
    /\ xml_in \in PayloadElements
    /\ xml_out = None
    /\ pending = <<>>
    /\ npre = 0
    /\ nmsgs = 0
    /\ tok = NoTok
    /\ node_stack = <<>>
    /\ event_xml = None
    /\ state = None
    /\ game_result = None
    /\ client_team = None
    /\ reservation_code = None
    /\ outbound = <<>>
    /\ calls = <<>>
    /\ ret = Running
    /\ sent = <<>>
    /\ events = <<>>
    /\ dispatched = <<>>

\* EventPayload::try_from(&elem)
PayloadDecode ==
    /\ pc = "payload"
    /\ dispatched' = <<EventPayloadFrom(xml_in)>>
    /\ pc' = "payload_done"
    /\ UNCHANGED <<pending, npre, nmsgs, tok, node_stack, event_xml, state,
                   game_result, client_team, reservation_code, outbound, calls,
                   ret, sent, events, xml_in, xml_out>>

NextPayload == PayloadDecode

SpecPayload == InitPayload /\ [][NextPayload]_vars

-----------------------------------------------------------------------------
(* Vocabulary of the claims. *)

IsEvent(d, kind) == IsOk(d) /\ d.v.kind = kind

IsRoomEvent(d, kind) == IsOk(d) /\ d.v.kind = "Room" /\ d.v.payload.kind = kind

\* the position of the last outcome of the given payload kind, 0 if none
LastOf(kind) ==
    LET idx == {i \in 1..Len(dispatched) : IsRoomEvent(dispatched[i], kind)}
    IN  IF idx = {} THEN 0 ELSE CHOOSE m \in idx : \A n \in idx : n <= m

LeftDispatched == \E i \in 1..Len(dispatched) : IsEvent(dispatched[i], "Left")

\* the event being dispatched is of the given kind
Dispatching(kind) == pc = "dispatch" /\ IsEvent(Decoded, kind)

DispatchingRoom(kind) == pc = "dispatch" /\ IsRoomEvent(Decoded, kind)

\* no token is taken from the wire in this step
NothingRead == pending' = pending /\ nmsgs' = nmsgs /\ tok' = tok /\ sent' = sent

RoomOpens(toks) == Len(SelectSeq(toks, LAMBDA t : t.kind = "Start" /\ t.name = "room"))

MoveCalls == Len(SelectSeq(calls, LAMBDA c : c.op = "request_move"))

-----------------------------------------------------------------------------
(* C1 *)

\* C1 as stated: for every Element E, once read_from has been given the
\* events E.write_to emits it has returned an Element equal to E in name,
\* attributes, content and children, and it returns nothing else.
C1_RoundTrip ==
    /\ xml_out # None => xml_out = Some(Ok(xml_in))
    /\ (pc \in {"xml_read", "xml_done"} /\ pending = <<>>) => xml_out = Some(Ok(xml_in))

-----------------------------------------------------------------------------
(* C2 *)

\* C2: a MoveRequest dispatched while no Memento has been dispatched, or
\* while the stored state yields no team to move, ends run with
\* SCError::InvalidState, without a call of the delegate and without any
\* write.
C2_MoveRequestNeedsState ==
    [][(/\ DispatchingRoom("MoveRequest")
        /\ \/ LastOf("Memento") = 0
           \/ (state # None /\ current_team(state[1]) = None))
       => (/\ pc' = "done"
           /\ ret'.tag = "Err"
           /\ ret'.v.kind = "InvalidState"
           /\ calls' = calls
           /\ outbound' = outbound)]_vars

C2_Witness ==
    /\ pc = "done"
    /\ ret = Err("InvalidState", "No state available at move request!")
    /\ dispatched # <<>>
    /\ IsRoomEvent(dispatched[Len(dispatched)], "MoveRequest")
    /\ LastOf("Memento") = 0

-----------------------------------------------------------------------------
(* C3 *)

\* C3: a MoveRequest for room R dispatched while a state with a team to move
\* is stored calls request_move once, with the state of the last Memento
\* dispatched, and appends one Room element for R with the returned move,
\* in the same step and without reading a token; so the Room elements
\* written always number the request_move calls made.
C3_MoveRequestAnswered ==
    /\ [][(/\ DispatchingRoom("MoveRequest")
           /\ state # None
           /\ current_team(state[1]) # None)
          => (/\ LastOf("Memento") > 0
              /\ \E new_move \in Moves :
                   /\ calls' = Append(calls,
                        Call("request_move",
                             <<dispatched[LastOf("Memento")].v.payload.v,
                               current_team(state[1])[1], new_move>>))
                   /\ outbound' = outbound
                        \o MoveReply(Decoded.v.room_id, new_move)
              /\ RoomOpens(outbound') = RoomOpens(outbound) + 1
              /\ NothingRead
              /\ pc' = "read")]_vars
    /\ [](RoomOpens(outbound) = MoveCalls)

C3_Witness ==
    /\ pc = "read"
    /\ calls # <<>>
    /\ calls[Len(calls)].op = "request_move"
    /\ \E i \in 1..Len(dispatched) :
         /\ IsRoomEvent(dispatched[i], "Memento")
         /\ i < LastOf("Memento")
         /\ dispatched[i] # dispatched[LastOf("Memento")]
    /\ \E new_move \in Moves :
         SubSeq(outbound, Len(outbound) - 5, Len(outbound)) = MoveReply("r2", new_move)

-----------------------------------------------------------------------------
(* C4 *)

\* the close-connection element followed by the envelope close tag
C4_CloseItems ==
    <<EmptyTok("sc.protocol.CloseConnection", {}), EndTok("protocol")>>

C4_EndsWithClose ==
    /\ Len(outbound) >= 2
    /\ SubSeq(outbound, Len(outbound) - 1, Len(outbound)) = C4_CloseItems

\* C4: a Left event appends the close-connection element and the envelope
\* close tag, which stay the last two items written; after it no token is
\* read and no event is dispatched, and the only step left is the return of
\* run, which is possible.
C4_LeftCloses ==
    /\ [][Dispatching("Left")
          => (/\ outbound' = outbound \o C4_CloseItems
              /\ pc' = "sleep"
              /\ NothingRead)]_vars
    /\ [][(pc = "sleep" \/ (pc = "done" /\ LeftDispatched))
          => (/\ NothingRead
              /\ outbound' = outbound
              /\ dispatched' = dispatched
              /\ calls' = calls
              /\ pc' = "done"
              /\ ret'.tag \in {"Ok", "Err"})]_vars
    /\ [](pc = "sleep" => (LeftDispatched /\ C4_EndsWithClose /\ ENABLED Finish))
    /\ []((pc = "done" /\ LeftDispatched) => C4_EndsWithClose)

C4_Witness ==
    /\ pc = "done"
    /\ LeftDispatched
    /\ C4_EndsWithClose
    /\ ret.tag \in {"Ok", "Err"}

-----------------------------------------------------------------------------
(* C5 *)

\* C5: run returns Ok exactly when it ends after a Left event before which a
\* GameResult was dispatched, and then returns the last GameResult
\* dispatched; when it ends after a Left event with no GameResult
\* dispatched it returns InvalidState("Failed to receive game_result").
C5_ResultContract ==
    /\ (pc = "done" /\ LeftDispatched) =>
          IF LastOf("GameResult") > 0
          THEN ret = Ok(dispatched[LastOf("GameResult")].v.payload.v)
          ELSE ret = Err("InvalidState", "Failed to receive game_result")
    /\ ret.tag = "Ok" => (pc = "done" /\ LeftDispatched /\ LastOf("GameResult") > 0)

C5_Witness ==
    /\ pc = "done"
    /\ ret.tag = "Ok"
    /\ ret.v.winner = Some([name |-> None, team |-> "ONE"])

-----------------------------------------------------------------------------
(* C6 *)

\* C6 as stated: every way run ends is the return of Ok(result) or of an
\* Err value.
C6_ReturnsResultOrError == pc = "done" => ret.tag \in {"Ok", "Err"}

-----------------------------------------------------------------------------
(* C7 *)

\* C7: when Event::try_from fails, the step that handles the failure goes
\* back to reading with the stored state, team and result, the delegate calls
\* and the output unchanged, run has not ended and the next read is possible.
C7_DecodeFailureSkipped ==
    /\ [][(pc = "dispatch" /\ ~IsOk(Decoded))
          => (/\ pc' = "read"
              /\ state' = state
              /\ client_team' = client_team
              /\ game_result' = game_result
              /\ calls' = calls
              /\ outbound' = outbound
              /\ ret' = Running
              /\ NothingRead)]_vars
    /\ []((pc = "read" /\ dispatched # <<>> /\ ~IsOk(dispatched[Len(dispatched)]))
            => ENABLED ReadFrom)

\* the three kinds of failure were passed over and a later event dispatched
C7_Witness ==
    /\ \E i \in 1..Len(dispatched) :
         ~IsOk(dispatched[i]) /\ dispatched[i].v.kind = "UnknownElement"
         /\ \E j \in (i + 1)..Len(dispatched) : IsRoomEvent(dispatched[j], "Welcome")
    /\ calls # <<>>
    /\ client_team # None

-----------------------------------------------------------------------------
(* C8 *)

\* C8: a step of the handshake calls no delegate operation, writes nothing,
\* builds and decodes no element; a text token leaves the session
\* handshaking, and the session becomes Active exactly on an element-open
\* token named protocol.
C8_HandshakeTolerance ==
    [][pc = "handshake"
       => (/\ calls' = calls
           /\ outbound' = outbound
           /\ node_stack' = node_stack
           /\ events' = events
           /\ dispatched' = dispatched
           /\ event_xml' = event_xml
           /\ (tok'.kind = "Text" => (pc' = "handshake" /\ ret' = Running))
           /\ (pc' = "read" <=> (tok'.kind = "Start" /\ tok'.name = "protocol"))
           /\ pc' \in {"handshake", "read", "done"})]_vars

C8_Witness ==
    /\ pc = "handshake"
    /\ tok.kind = "Text"
    /\ npre >= 1
    /\ ret = Running
    /\ calls = <<>>

-----------------------------------------------------------------------------
(* C9 *)

\* the team stored by the last Welcome dispatched, if any
C9_WelcomeTeam ==
    IF LastOf("Welcome") = 0 THEN None
    ELSE Some(dispatched[LastOf("Welcome")].v.payload.v)

\* C9 as stated: every Welcome, Memento and GameResult event dispatched
\* appends exactly its delegate notification, the one for GameResult with the
\* team of the preceding Welcome; Joined, Left and undecodable messages
\* append none.
C9_DelegateDispatch ==
    [][pc = "dispatch"
       => (/\ DispatchingRoom("Welcome")
               => calls' = Append(calls, Call("on_welcome", <<Decoded.v.payload.v>>))
           /\ DispatchingRoom("Memento")
               => calls' = Append(calls, Call("on_update_state", <<Decoded.v.payload.v>>))
           /\ DispatchingRoom("GameResult")
               => (/\ C9_WelcomeTeam # None
                   /\ calls' = Append(calls, Call("on_game_end",
                                 <<Decoded.v.payload.v, C9_WelcomeTeam[1]>>)))
           /\ (Dispatching("Joined") \/ Dispatching("Left") \/ ~IsOk(Decoded))
               => calls' = calls)]_vars

-----------------------------------------------------------------------------
(* C10 *)

\* C10 as stated: the Elements read_from has returned are the documents the
\* peer has sent, in order, each returned once its close has been read and
\* with no token read beyond it.
C10_DocumentsInOrder ==
    /\ \A i \in 1..Len(events) : i <= Len(sent) /\ events[i] = sent[i]
    /\ pc = "dispatch" => (pending = <<>> /\ Len(events) = Len(sent))

-----------------------------------------------------------------------------
(* C11 *)

\* C11 as stated: when read_event returns Eof while read_from has an element
\* open (node_stack is not empty), read_from returns an error, which ends
\* run with that error.
C11_EofInsideElement ==
    [][(pc = "read" /\ node_stack # <<>> /\ tok'.kind = "Eof")
       => (pc' = "done" /\ ret'.tag = "Err")]_vars

-----------------------------------------------------------------------------
(* C12 *)

\* C12: for an Element without children and with empty content, write_to
\* emits exactly one event, Event::Empty with the element's name and all its
\* attributes; these are the events the reader is then given.
C12_SelfClosing ==
    (xml_in.childs = <<>> /\ xml_in.content = <<>>)
       => (/\ write_to(xml_in) = <<EmptyTok(xml_in.name, xml_in.attributes)>>
           /\ (pc = "xml_read" /\ tok = NoTok) => pending = write_to(xml_in))

C12_Witness ==
    /\ pc = "xml_read"
    /\ tok = NoTok
    /\ xml_in = Element("a", <<>>, {<<"k", "v">>}, <<>>)
    /\ pending = <<EmptyTok("a", {<<"k", "v">>})>>

-----------------------------------------------------------------------------
(* C13 *)

\* the join request the configuration calls for, as written
C13_JoinItem ==
    IF reservation_code = None THEN EmptyTok("join", {})
    ELSE EmptyTok("joinPrepared", {<<"reservationCode", reservation_code[1]>>})

C13_JoinsWritten ==
    Len(SelectSeq(outbound, LAMBDA t : t.name \in {"join", "joinPrepared"}))

\* C13: until the connecting step nothing is written and no token is read;
\* the step writes the envelope open tag and then the join request, which is
\* JoinPrepared with the configured code or else Join, without reading; from
\* then on these stay the first two items written and no other join request
\* is written.
C13_ConnectingStep ==
    /\ [](pc = "connect"
            => (outbound = <<>> /\ tok = NoTok /\ sent = <<>> /\ npre = 0 /\ nmsgs = 0))
    /\ [][pc = "connect"
          => (/\ NothingRead
              /\ outbound' = <<StartTok("protocol", {}), C13_JoinItem>>
              /\ pc' = "handshake")]_vars
    /\ [](pc # "connect"
            => (/\ Len(outbound) >= 2
                /\ outbound[1] = StartTok("protocol", {})
                /\ outbound[2] = C13_JoinItem
                /\ C13_JoinsWritten = 1))

C13_Witness ==
    /\ reservation_code = Some("code")
    /\ pc = "read"
    /\ outbound[2] = EmptyTok("joinPrepared", {<<"reservationCode", "code">>})
    /\ Len(outbound) > 2
    /\ MoveCalls = 1

-----------------------------------------------------------------------------
(* C14 *)

\* a sequence of Room/Move requests, each written whole
RECURSIVE C14_Rooms(_)
C14_Rooms(toks) ==
    \/ toks = <<>>
    \/ \E r \in {"r1", "r2"}, m \in Moves :
         LET n == Len(MoveReply(r, m))
         IN  /\ Len(toks) >= n
             /\ SubSeq(toks, 1, n) = MoveReply(r, m)
             /\ C14_Rooms(SubSeq(toks, n + 1, Len(toks)))

C14_Count(t) == Len(SelectSeq(outbound, LAMBDA x : x = t))

\* the close-connection element and the envelope close tag
C14_Close == <<EmptyTok("sc.protocol.CloseConnection", {}), EndTok("protocol")>>

\* envelope open, join request, Room/Move requests, and then possibly the
\* close-connection element and the envelope close tag
C14_Framed ==
    \/ outbound = <<>>
    \/ /\ Len(outbound) >= 2
       /\ outbound[1] = StartTok("protocol", {})
       /\ outbound[2].kind = "Empty"
       /\ outbound[2].name \in {"join", "joinPrepared"}
       /\ LET rest   == SubSeq(outbound, 3, Len(outbound))
              closed == /\ Len(rest) >= 2
                        /\ SubSeq(rest, Len(rest) - 1, Len(rest)) = C14_Close
          IN  C14_Rooms(IF closed THEN SubSeq(rest, 1, Len(rest) - 2) ELSE rest)

\* C14: what has been written is always a prefix of envelope open, join
\* request, Room/Move requests, close-connection, envelope close; the
\* envelope open tag is written once, the envelope close tag at most once
\* and only after a Left event, and nothing is written after it.
C14_EnvelopeFraming ==
    /\ [](C14_Framed)
    /\ [](outbound # <<>> => C14_Count(StartTok("protocol", {})) = 1)
    /\ [](C14_Count(EndTok("protocol")) <= 1)
    /\ [](C14_Count(EndTok("protocol")) = 1 => LeftDispatched)
    /\ [][C14_Count(EndTok("protocol")) = 1 => outbound' = outbound]_vars

C14_Witness ==
    /\ pc = "done"
    /\ MoveCalls >= 1
    /\ RoomOpens(outbound) >= 1
    /\ outbound[Len(outbound)] = EndTok("protocol")
    /\ outbound[Len(outbound) - 1] = EmptyTok("sc.protocol.CloseConnection", {})

-----------------------------------------------------------------------------
(* C15 *)

\* Connecting, Handshaking, Active, Closing, Terminated
C15_Phase(p) ==
    CASE p = "connect" -> 0
      [] p = "handshake" -> 1
      [] p \in {"read", "dispatch"} -> 2
      [] p = "sleep" -> 3
      [] p = "done" -> 4

\* C15: every step stays in its phase or moves to the next one, except that
\* a fatal outcome moves straight to Terminated; nothing happens after
\* Terminated, no handshake read happens once the session is Active, and
\* after a Left event no token is read and no event is dispatched.
C15_ForwardOnly ==
    /\ [][/\ pc # "done"
          /\ C15_Phase(pc') >= C15_Phase(pc)
          /\ IF pc' = "done"
             THEN IF pc = "sleep" THEN ret'.tag \in {"Ok", "Err"}
                  ELSE ret'.tag \in {"Err", "Panic"}
             ELSE /\ C15_Phase(pc') <= C15_Phase(pc) + 1
                  /\ ret' = Running]_vars
    /\ [][C15_Phase(pc) >= 2 => npre' = npre]_vars
    /\ [][LeftDispatched => (NothingRead /\ dispatched' = dispatched)]_vars

C15_Witness ==
    /\ pc = "done"
    /\ ret.tag = "Ok"
    /\ npre >= 2
    /\ LeftDispatched

-----------------------------------------------------------------------------
(* C16 *)

\* the outcome Err(SCError::Eof)
C16_IsEof(r) == r.tag = "Err" /\ r.v = [kind |-> "Eof", detail |-> ""]

\* C16: when read_event returns Eof in the handshake loop, run ends with
\* SCError::Eof in that step; run ends with SCError::Eof only then, with no
\* element built, no event dispatched, no delegate operation called and
\* nothing written beyond the join request.
C16_HandshakeEof ==
    /\ [][(pc = "handshake" /\ tok'.kind = "Eof")
          => (pc' = "done" /\ C16_IsEof(ret') /\ calls' = calls)]_vars
    /\ [](C16_IsEof(ret)
            => (/\ pc = "done"
                /\ tok.kind = "Eof"
                /\ nmsgs = 0
                /\ calls = <<>>
                /\ events = <<>>
                /\ dispatched = <<>>
                /\ Len(outbound) = 2))

C16_Witness ==
    /\ pc = "done"
    /\ C16_IsEof(ret)
    /\ tok = EofTok
    /\ npre >= 1
    /\ calls = <<>>

-----------------------------------------------------------------------------
(* C17 *)

\* the serialization the two rules describe: a self-closing tag for an
\* element without children and content, and otherwise an opening tag, one
\* text token if the content is not empty, the children in order, and a
\* closing tag
RECURSIVE C17_Serialized(_)
C17_Serialized(elem) ==
    IF elem.childs = <<>> /\ elem.content = <<>>
    THEN <<EmptyTok(elem.name, elem.attributes)>>
    ELSE <<StartTok(elem.name, elem.attributes)>>
         \o (IF elem.content # <<>> THEN <<TextTok(Escape(elem.content))>> ELSE <<>>)
         \o Flatten([i \in 1..Len(elem.childs) |-> C17_Serialized(elem.childs[i])])
         \o <<EndTok(elem.name)>>

\* C17 as stated: for an Element with children or with content, write_to
\* emits the opening tag, the text token, the children and the closing tag.
C17_GeneralForm ==
    (xml_in.childs # <<>> \/ xml_in.content # <<>>)
       => (/\ write_to(xml_in) = C17_Serialized(xml_in)
           /\ (pc = "xml_read" /\ tok = NoTok) => pending = C17_Serialized(xml_in))

-----------------------------------------------------------------------------
(* C18 *)

\* C18 as stated: whenever run waits for a token or sleeps before returning,
\* everything it has written has been handed to the transport.
C18_NothingBuffered ==
    pc \in {"handshake", "read", "sleep"} => (Buffered = <<>> /\ Transport = outbound)

-----------------------------------------------------------------------------
(* C19 *)

\* C19 as stated: once a game result is recorded no step changes it, and the
\* value run returns is the first one recorded.
C19_ResultSetOnce ==
    [][game_result # None => game_result' = game_result]_vars

-----------------------------------------------------------------------------
(* C20 *)

\* C20 as stated: once a Welcome event has stored the team no step changes
\* it.
C20_TeamSetOnce ==
    [][client_team # None => client_team' = client_team]_vars

-----------------------------------------------------------------------------
(* C21 *)

\* C21: a text token read while an element is open appends its text to the
\* content of the element on top of the stack and changes nothing else of
\* the stack; the Element returned has as content all its text tokens in
\* arrival order, those before and after its child, and the child has only
\* its own.
C21_TextConcatenated ==
    /\ [][(pc = "xml_read" /\ tok'.kind = "Text" /\ node_stack # <<>>)
          => node_stack' =
               [node_stack EXCEPT ![Len(node_stack)].content = @ \o tok'.text]]_vars
    /\ [](pc = "xml_done"
            => (/\ IsOk(xml_out[1])
                /\ xml_out[1].v.content = xml_in.content
                /\ Len(xml_out[1].v.childs) = 1
                /\ xml_out[1].v.childs[1].content = xml_in.childs[1].content))

C21_Witness ==
    /\ pc = "xml_done"
    /\ xml_out = Some(Ok(Element("a", <<"x", "y", "y", "x">>, {},
                                 <<Element("b", <<"u", "u">>, {}, <<>>)>>)))

-----------------------------------------------------------------------------
(* C22 *)

\* C22: a close token or a text token read while no element is open leaves
\* the stack empty and returns nothing, and reading goes on; the Element
\* returned for the document that follows is the document, whatever stray
\* tokens came before it.
C22_StrayTolerated ==
    /\ [][(pc = "xml_read" /\ node_stack = <<>> /\ tok'.kind \in {"End", "Text"})
          => (node_stack' = <<>> /\ xml_out' = None /\ pc' = "xml_read")]_vars
    /\ [](pc = "xml_done" => xml_out = Some(Ok(xml_in)))

C22_Witness ==
    /\ pc = "xml_read"
    /\ tok = EndTok("z")
    /\ node_stack = <<>>
    /\ xml_out = None
    /\ pending # <<>>
    /\ Head(pending) = StartTok("a", {})

-----------------------------------------------------------------------------
(* C23 *)

\* the variant of the class, or a malformed payload: never another variant,
\* UnknownElement or ServerError
C23_Selects(r, kind) ==
    IF IsOk(r) THEN r.v.kind = kind ELSE r.v.kind \in {"Custom", "Parse"}

C23_Unknown(r, elem) ==
    ~IsOk(r) /\ r.v.kind = "UnknownElement" /\ r.v.detail = elem

C23_ServerError(r, message) ==
    ~IsOk(r) /\ r.v.kind = "ServerError" /\ r.v.detail = message

\* C23: the class attribute alone selects the outcome of
\* EventPayload::try_from: welcomeMessage, memento, moveRequest and result
\* select Welcome, Memento, MoveRequest and GameResult, which is the outcome
\* whenever the fields of that variant convert (and a malformed payload
\* otherwise); error yields ServerError with the message attribute; any
\* other class yields UnknownElement with the element unchanged; without a
\* class attribute the outcome is a malformed payload.
C23_ClassSelectsOutcome ==
    pc = "payload_done" =>
      LET r     == dispatched[1]
          class == Attribute(xml_in, "class")
      IN  IF ~IsOk(class) THEN ~IsOk(r) /\ r.v.kind = "Custom"
          ELSE CASE class.v = "welcomeMessage" ->
                      /\ C23_Selects(r, "Welcome")
                      /\ \A t \in {"ONE", "TWO"} :
                           <<"color", t>> \in xml_in.attributes
                              => r = Ok(Payload("Welcome", t))
                 [] class.v = "memento" ->
                      /\ C23_Selects(r, "Memento")
                      /\ IsOk(MementoState(xml_in)) => IsOk(r)
                 [] class.v = "moveRequest" ->
                      IsOk(r) /\ r.v.kind = "MoveRequest"
                 [] class.v = "result" ->
                      /\ C23_Selects(r, "GameResult")
                      /\ IsOk(GameResultFrom(xml_in)) => IsOk(r)
                 [] class.v = "error" ->
                      IF HasAttribute(xml_in, "message")
                      THEN C23_ServerError(r, Attribute(xml_in, "message").v)
                      ELSE ~IsOk(r) /\ r.v.kind = "Custom"
                 [] OTHER -> C23_Unknown(r, xml_in)

\* the six classes have been decoded, among them error with its message
C23_Witness ==
    /\ pc = "payload_done"
    /\ <<"class", "error">> \in xml_in.attributes
    /\ <<"color", "ONE">> \in xml_in.attributes
    /\ xml_in.childs # <<>>
    /\ C23_ServerError(dispatched[1], "oops")

-----------------------------------------------------------------------------
(* C24 *)

\* the child is present and does not convert
C24_BadChild(elem, name, r) == IsOk(ChildByName(elem, name)) /\ ~IsOk(r)

\* a field of the payload is missing though required, or present and not
\* convertible to its type
C24_Malformed(elem) ==
    LET class == Attribute(elem, "class")
    IN  /\ IsOk(class)
        /\ CASE class.v = "welcomeMessage" -> ~IsOk(TeamAttribute(elem, "color"))
             [] class.v = "result" ->
                  \/ ~IsOk(ResultDefinition(elem))
                  \/ ~IsOk(ResultScores(elem))
                  \/ /\ IsOk(ChildByName(elem, "winner"))
                     /\ ~IsOk(PlayerFrom(ChildByName(elem, "winner").v))
             [] class.v = "memento" ->
                  \/ ~IsOk(ChildByName(elem, "state"))
                  \/ LET st == ChildByName(elem, "state").v
                     IN  \/ ~IsOk(StateBoard(st))
                         \/ ~IsOk(StateAmbers(st))
                         \/ ~IsOk(UsizeAttribute(st, "turn"))
                         \/ /\ IsOk(ChildByName(st, "lastMove"))
                            /\ ~IsOk(MoveFrom(ChildByName(st, "lastMove").v))
                         \/ /\ IsOk(ChildByName(st, "startTeam"))
                            /\ ~IsOk(ParseTeam(ContentStr(ChildByName(st, "startTeam").v)))
             [] OTHER -> FALSE

\* C24 as stated: decoding a payload with a missing required field, or with
\* a field that is present and does not convert, the winner of a result and
\* the lastMove and startTeam of a state included, fails with a malformed
\* payload and produces no value.
C24_StrictFields ==
    (pc = "payload_done" /\ C24_Malformed(xml_in))
       => (~IsOk(dispatched[1]) /\ dispatched[1].v.kind \in {"Custom", "Parse"})

-----------------------------------------------------------------------------
(* C25 *)

\* C25 as stated: once read_event has returned Eof in the event loop while
\* no element is open, the call of run eventually returns.
C25_ReturnsOnPeerClose ==
    (pc = "read" /\ tok.kind = "Eof" /\ node_stack = <<>>) ~> (pc = "done")

-----------------------------------------------------------------------------
(* C26 *)

\* the childless Element of a self-closing tag
C26_ElementOf(t) == Element(t.name, <<>>, t.attrs, <<>>)

\* C26 as stated: a self-closing tag read by read_from becomes a childless
\* Element with its name and attributes, which is returned as the document
\* when no element is open, and otherwise appended to the children of the
\* element on top of the stack.
C26_SelfClosingRead ==
    [][(pc = "read" /\ tok'.kind = "Empty")
       => IF node_stack = <<>>
          THEN /\ pc' = "dispatch"
               /\ event_xml' = Some(C26_ElementOf(tok'))
          ELSE node_stack' =
                 [node_stack EXCEPT ![Len(node_stack)].childs =
                                        Append(@, C26_ElementOf(tok'))]]_vars

====
